---- MODULE Spec2Model ----
(***************************************************************************)
(* Voice pitch tracker.                                                    *)
(*                                                                         *)
(* Part A (specification Spec): the listening session of src/src/App.tsx:  *)
(* startListening, analyzeAudio/analyze, stopListening, the unmount        *)
(* cleanup, the browser's animation-frame queue and the pending            *)
(* getUserMedia requests.  The detection history (frequencyHistoryRef) and *)
(* the released frequency (setFrequency) are the Stability Filter.         *)
(*                                                                         *)
(* Part B (specification SpecPitch): detectPitch of                        *)
(* src/src/pitchDetection.ts, lines 5-109, as a pure function of a sample  *)
(* buffer and its parameters.                                              *)
(***************************************************************************)
EXTENDS Integers, Sequences, FiniteSets, TLC

(***************************************************************************)
(* Optional values (T | null) are sequences of length 0 or 1.              *)
(***************************************************************************)
None == << >>
Some(x) == << x >>

\* ------------------------------------------------------------------ bounds
\* requestAnimationFrame hands out the ids 1..MaxFrameId.
MaxFrameId == 3
\* startListening is invoked at most MaxStarts times.
MaxStarts == 3

\* A sample buffer is the concatenation of NumWords words of Words.
NumWords == 4
\* Correlation values are held as multiples of 1/Scale.
Scale == 40

\* ------------------------------------------------------- program constants
\* App.tsx:336  const twoSecondsAgo = now - 2000
LookbackMs == 2000
\* App.tsx:349  frequencyHistoryRef.current.length >= 2
MinDetections == 2

\* The values Date.now() takes (ms since the page was loaded): the clock
\* moves from one to a later one between two events, and two events may see
\* the same value.  They lie 1, 1999 and 2000 ms apart.
Instants == {0, 1, 2000}

\* Results of detectPitch(buffer, sampleRate, 105, 400, isMobile) and of
\* detectPitch(buffer, sampleRate, 105, 800, isMobile) on the buffer the
\* analyser hands out: the microphone signal is the environment.
NarrowEstimates == {None, Some(110)}
WideEstimates == {None, Some(600)}
\* App.tsx:331-332  << minFrequency, maxFrequency >> of the two calls
NarrowRange == << 105, 400 >>
WideRange == << 105, 800 >>

\* ---- inputs of detectPitch
\* One sample unit is UnitMilli/1000, so the sample k stands for k * 0.01.
UnitMilli == 10
\* 1e-10 (pitchDetection.ts:53), the epsilon under the square root, is
\* 1/EpsilonInv in units of sample^4: (0.01)^4 / 1e-10 = 100.
EpsilonInv == 100
\* three consecutive samples
Words == { << 0, 0, 0 >>, << -1, -3, -3 >>, << 1, -1, 1 >>, << -3, 1, -1 >> }
\* << sampleRate, minFrequency, maxFrequency >>: ranges inside the buffer,
\* one whose maxPeriod is half the buffer length, maxFrequency above the
\* sample rate, minFrequency above maxFrequency, a zero and a negative
\* sample rate, a negative maxFrequency, a negative sample rate with a
\* negative minFrequency
PitchParams == { << 12, 1, 12 >>, << 12, 1, 5 >>, << 13, 3, 13 >>,
                 << 12, 2, 12 >>, << 12, 1, 24 >>, << 12, 5, 4 >>,
                 << 0, 1, 12 >>, << -12, 5, 1 >>, << 12, 1, -5 >>,
                 << -12, -1, 5 >> }

VARIABLES
    \* the call of detectPitch being evaluated: its arguments
    buffer, sampleRate, minFrequency, maxFrequency, isMobile,
    \* its position ("idle": no call), its locals and its return value
    pc, clipped, corrValues, peaks, bestPeak, bestOffset, result,
    \* the indices (from 0) at which the correlation loop read clipped
    reads,
    \* React state of App (App.tsx:174-176)
    frequency, isListening, error,
    \* refs of App (App.tsx:178-181)
    audioContextRef, analyserRef, animationFrameRef, frequencyHistoryRef,
    \* the component is mounted (the effect cleanup of App.tsx:374 has not run)
    mounted,
    \* startListening calls suspended at `await getUserMedia` (App.tsx:291):
    \* the set of their call numbers
    pendingMic,
    \* callbacks the browser holds for the next animation frame:
    \* records [id, loop], loop = the analyzeAudio call that owns the closure
    rafQueue,
    \* the next id requestAnimationFrame returns; the number of startListening
    \* calls so far
    nextFrameId, starts,
    \* Date.now()
    clock,
    \* observation of the run: the body of analyze the last step executed
    \* (None when the last step executed none), the last
    \* time any tick had a present raw estimate, the previous tick of the
    \* current session, the loops that already had a present estimate, the
    \* startListening calls made after a stopListening, whether stopListening
    \* has run
    lastTick, lastDetect, prevTick, loopsDetected, loopsAfterStop, stopped,
    \* the number of startListening calls made when stopListening last ran,
    \* as long as no call made after it has acquired the microphone (None
    \* before the first stopListening and after such an acquisition)
    quietSince

appVars == << frequency, isListening, error, audioContextRef, analyserRef,
              animationFrameRef, frequencyHistoryRef, mounted, pendingMic,
              rafQueue, nextFrameId, starts, clock >>
obsVars == << lastDetect, prevTick, loopsDetected, loopsAfterStop, stopped,
             quietSince >>
pitchVars == << buffer, sampleRate, minFrequency, maxFrequency, isMobile,
               pc, clipped, corrValues, peaks, bestPeak, bestOffset, result,
               reads >>
vars == << appVars, lastTick, obsVars, pitchVars >>

\* ------------------------------------------------------ Stability Filter

\* PurgeOld keeping the entry that is exactly LookbackMs old
PurgeOldInclusive(history, now) ==
    SelectSeq(history, LAMBDA timestamp : timestamp >= now - LookbackMs)

\* PurgeOld with half the lookback window
PurgeOldShort(history, now) ==
    SelectSeq(history, LAMBDA timestamp : timestamp > now - (LookbackMs \div 2))

\* App.tsx:339-341  history.filter((timestamp) => timestamp > twoSecondsAgo)
PurgeOld(history, now) ==
    SelectSeq(history, LAMBDA timestamp : timestamp > now - LookbackMs)

\* UpdateHistory putting the new detection in front (unshift for push)
UpdateHistoryUnshift(history, detectedFreq, now) ==
    IF detectedFreq # None
    THEN << now >> \o PurgeOld(history, now)
    ELSE PurgeOld(history, now)

\* App.tsx:339-346  purge, then push(now) if a frequency was found
UpdateHistory(history, detectedFreq, now) ==
    IF detectedFreq # None
    THEN Append(PurgeOld(history, now), now)
    ELSE PurgeOld(history, now)

\* Released with a strict comparison (length > 2)
ReleasedStrict(history, detectedFreq) ==
    IF Len(history) > MinDetections THEN detectedFreq ELSE None

\* Released rounding the frequency down to a multiple of 100 Hz
ReleasedRounded(history, detectedFreq) ==
    IF Len(history) >= MinDetections /\ detectedFreq # None
    THEN Some(100 * (detectedFreq[1] \div 100))
    ELSE None

\* App.tsx:349-350  setFrequency(hasEnoughDetections ? detectedFreq : null)
Released(history, detectedFreq) ==
    IF Len(history) >= MinDetections THEN detectedFreq ELSE None

\* Coalesce preferring the result of the wide-range call
CoalesceWideFirst(narrow, wide) == IF wide # None THEN wide ELSE narrow

\* App.tsx:330-332  detectPitch(narrow) ?? detectPitch(wide)
Coalesce(narrow, wide) == IF narrow # None THEN narrow ELSE wide

\* App.tsx:330-332  the calls of detectPitch one tick makes, by their ranges:
\* the right operand of ?? is evaluated only when the left one is null
DetectCalls(narrow) ==
    IF narrow # None THEN << NarrowRange >> ELSE << NarrowRange, WideRange >>

\* A React state setter: without effect once the component is unmounted.
SetState(current, value) == IF mounted THEN value ELSE current

\* ------------------------------------------------------------- operations

AppInit ==
    /\ frequency = None
    /\ isListening = FALSE
    /\ error = None
    /\ audioContextRef = None
    /\ analyserRef = None
    /\ animationFrameRef = None
    /\ frequencyHistoryRef = << >>
    /\ mounted = TRUE
    /\ pendingMic = {}
    /\ rafQueue = {}
    /\ nextFrameId = 1
    /\ starts = 0
    /\ clock = 0
    /\ lastTick = None
    /\ lastDetect = None
    /\ prevTick = None
    /\ loopsDetected = {}
    /\ loopsAfterStop = {}
    /\ stopped = FALSE
    /\ quietSince = None

\* no call of detectPitch is being evaluated
PitchIdle ==
    /\ buffer = << >>
    /\ sampleRate = 0
    /\ minFrequency = 0
    /\ maxFrequency = 0
    /\ isMobile = FALSE
    /\ pc = "idle"
    /\ clipped = << >>
    /\ corrValues = << >>
    /\ peaks = << >>
    /\ bestPeak = None
    /\ bestOffset = None
    /\ result = None
    /\ reads = {}

\* App.tsx:327-352  the body of analyze once its guard (line 325) has passed.
\* loop is the analyzeAudio call owning the closure, queue the browser's
\* callbacks without the one being run.
\* narrow and wide are what detectPitch gives for the two ranges on the
\* buffer of this tick.
AnalyzeBody(loop, queue) ==
    \E narrow \in NarrowEstimates :
    \E wide \in WideEstimates :
        LET detectedFreq == Coalesce(narrow, wide)
            calls == DetectCalls(narrow)
            now == clock
            history == UpdateHistory(frequencyHistoryRef, detectedFreq, now)
            released == Released(history, detectedFreq)
        IN  /\ frequencyHistoryRef' = history
            /\ frequency' = SetState(frequency, released)
            /\ animationFrameRef' = Some(nextFrameId)
            /\ rafQueue' = queue \cup {[id |-> nextFrameId, loop |-> loop]}
            /\ nextFrameId' = nextFrameId + 1
            /\ lastTick' = Some([now |-> now, raw |-> detectedFreq,
                                 calls |-> calls,
                                 narrow |-> narrow,
                                 wide |-> IF Len(calls) = 2 THEN wide ELSE None,
                                 released |-> released,
                                 pre |-> frequencyHistoryRef, post |-> history,
                                 loop |-> loop,
                                 prevDetect |-> lastDetect,
                                 prevTick |-> prevTick,
                                 firstOfLoop |-> loop \notin loopsDetected,
                                 afterStop |-> loop \in loopsAfterStop])
            /\ lastDetect' = IF detectedFreq # None THEN Some(now) ELSE lastDetect
            /\ prevTick' = Some([now |-> now, raw |-> detectedFreq])
            /\ loopsDetected' = IF detectedFreq # None
                                THEN loopsDetected \cup {loop} ELSE loopsDetected

\* App.tsx:289-291  startListening up to the await; the button that calls it
\* is rendered only while !isListening (App.tsx:423-425).
StartListening ==
    /\ mounted
    /\ ~isListening
    /\ starts < MaxStarts
    /\ starts' = starts + 1
    /\ pendingMic' = pendingMic \cup {starts + 1}
    /\ loopsAfterStop' = IF stopped THEN loopsAfterStop \cup {starts + 1}
                         ELSE loopsAfterStop
    /\ UNCHANGED << frequency, isListening, error, audioContextRef, analyserRef,
                    animationFrameRef, frequencyHistoryRef, mounted, rafQueue,
                    nextFrameId, clock >>
    /\ lastTick' = None
    /\ UNCHANGED << lastDetect, prevTick, loopsDetected, stopped, quietSince >>
    /\ UNCHANGED pitchVars

\* App.tsx:293-309  getUserMedia resolved: the rest of startListening, then
\* analyzeAudio (318-356) and its first call of analyze.  The refs were set
\* at 302-303, so the guards at 319 and 325 pass.
MicGranted ==
    \E call \in pendingMic :
        /\ nextFrameId <= MaxFrameId
        /\ pendingMic' = pendingMic \ {call}
        /\ audioContextRef' = Some(call)
        /\ analyserRef' = Some(call)
        /\ isListening' = SetState(isListening, TRUE)
        /\ error' = SetState(error, None)
        /\ AnalyzeBody(call, rafQueue)
        /\ quietSince' = IF quietSince # None /\ call > quietSince[1]
                         THEN None ELSE quietSince
        /\ UNCHANGED << mounted, starts, clock, loopsAfterStop, stopped >>
        /\ UNCHANGED pitchVars

\* App.tsx:310-315  getUserMedia rejected
MicDenied ==
    \E call \in pendingMic :
        /\ pendingMic' = pendingMic \ {call}
        /\ error' = SetState(error, Some("Failed to access microphone"))
        /\ UNCHANGED << frequency, isListening, audioContextRef, analyserRef,
                        animationFrameRef, frequencyHistoryRef, mounted,
                        rafQueue, nextFrameId, starts, clock >>
        /\ lastTick' = None
        /\ UNCHANGED obsVars
        /\ UNCHANGED pitchVars

\* App.tsx:324-353  the browser runs a scheduled analyze callback
AnimationFrame ==
    \E f \in rafQueue :
        IF analyserRef = None \/ audioContextRef = None
        THEN \* line 325: return, the loop ends
             /\ rafQueue' = rafQueue \ {f}
             /\ UNCHANGED << frequency, isListening, error, audioContextRef,
                             analyserRef, animationFrameRef, frequencyHistoryRef,
                             mounted, pendingMic, nextFrameId, starts, clock >>
             /\ lastTick' = None
             /\ UNCHANGED obsVars
             /\ UNCHANGED pitchVars
        ELSE /\ nextFrameId <= MaxFrameId
             /\ AnalyzeBody(f.loop, rafQueue \ {f})
             /\ UNCHANGED << isListening, error, audioContextRef, analyserRef,
                             mounted, pendingMic, starts, clock,
                             loopsAfterStop, stopped, quietSince >>
             /\ UNCHANGED pitchVars

\* App.tsx:358-372  the body of stopListening
StopBody ==
    /\ rafQueue' = IF animationFrameRef # None
                   THEN {f \in rafQueue : f.id # animationFrameRef[1]}
                   ELSE rafQueue
    /\ audioContextRef' = None
    /\ analyserRef' = None
    /\ frequencyHistoryRef' = << >>
    /\ isListening' = SetState(isListening, FALSE)
    /\ frequency' = SetState(frequency, None)
    /\ stopped' = TRUE
    /\ quietSince' = Some(starts)
    /\ prevTick' = None
    /\ lastTick' = None
    /\ UNCHANGED << error, animationFrameRef, pendingMic, nextFrameId, starts,
                    clock, lastDetect, loopsDetected, loopsAfterStop >>
    /\ UNCHANGED pitchVars

\* App.tsx:440  the Stop button, rendered only while isListening
StopListening ==
    /\ mounted
    /\ isListening
    /\ StopBody
    /\ UNCHANGED mounted

\* App.tsx:374-378  the effect cleanup on unmount calls stopListening
Unmount ==
    /\ mounted
    /\ StopBody
    /\ mounted' = FALSE

\* time passes between two events
Advance ==
    \E t \in Instants :
        /\ t > clock
        /\ clock' = t
        /\ UNCHANGED << frequency, isListening, error, audioContextRef,
                        analyserRef, animationFrameRef, frequencyHistoryRef,
                        mounted, pendingMic, rafQueue, nextFrameId, starts >>
        /\ lastTick' = None
        /\ UNCHANGED obsVars
        /\ UNCHANGED pitchVars

\* ------------------------------------------------ claims on the session

\* the entries of history a purge from the front removes: the leading
\* entries that are LookbackMs old or older (spec 4.2 (a))
RECURSIVE PurgeFront(_, _)
PurgeFront(history, now) ==
    IF history # << >> /\ Head(history) <= now - LookbackMs
    THEN PurgeFront(Tail(history), now)
    ELSE history

IsSorted(history) ==
    \A i \in 1..Len(history) : \A j \in i..Len(history) : history[i] <= history[j]

Ticked == lastTick # None
T == lastTick[1]

C3_BurstReleases ==
    (/\ Ticked
     /\ T.raw # None
     /\ T.prevTick # None
     /\ T.prevTick[1].raw # None
     /\ T.prevTick[1].now > T.now - LookbackMs)
        => (T.released = T.raw /\ T.released # None)

\* a burst of two ticks at distinct timestamps; before the second tick the
\* history holds the first tick's entry alone
C3_Witness ==
    /\ Ticked
    /\ T.raw # None
    /\ T.prevTick # None
    /\ T.pre = << T.prevTick[1].now >>
    /\ T.prevTick[1].raw # None
    /\ T.prevTick[1].now > T.now - LookbackMs
    /\ T.prevTick[1].now < T.now
    /\ T.released = T.raw

\* C4: the released value of a tick is absent or that tick's raw estimate.
C4_NeverAlters ==
    Ticked => (T.released = None \/ T.released = T.raw)

\* a release following a tick with another raw estimate
C4_Witness ==
    /\ Ticked
    /\ T.released # None
    /\ T.prevTick # None
    /\ T.prevTick[1].raw # None
    /\ T.prevTick[1].raw # T.raw

\* C5: in a session whose startListening was invoked after a stopListening,
\* the first present raw estimate is not released.
C5_FirstAfterStopNotReleased ==
    (/\ Ticked
     /\ T.afterStop
     /\ T.firstOfLoop
     /\ T.raw # None)
        => T.released = None

C7_SingleLoop ==
    Cardinality({f.loop : f \in rafQueue}) <= 1

\* C16: on every tick the first call of detectPitch has the range 105-400;
\* when its result is present it is the raw estimate and no other call is
\* made; when it is absent a second call with the range 105-800 is made and
\* its result is the raw estimate; so the raw estimate is absent only if
\* both calls returned absent.
C16_NarrowThenWide ==
    Ticked =>
        /\ T.calls[1] = << 105, 400 >>
        /\ T.narrow # None => (T.raw = T.narrow /\ Len(T.calls) = 1)
        /\ T.narrow = None =>
               /\ T.calls = << << 105, 400 >>, << 105, 800 >> >>
               /\ T.raw = T.wide
        /\ T.raw = None <=>
               (T.narrow = None /\ Len(T.calls) = 2 /\ T.wide = None)

\* two ticks of a session: one took the narrow result, the next fell back to
\* the wide call and released its result
C16_Witness ==
    /\ Ticked
    /\ T.narrow = None
    /\ T.raw # None
    /\ T.released = T.wide
    /\ T.prevTick # None
    /\ T.prevTick[1].raw \in NarrowEstimates \ {None}

\* C17: from a run of stopListening (the Stop button or the unmount cleanup)
\* until a startListening invoked after it acquires the microphone, no step
\* executes the body of an analysis tick, the displayed frequency is absent
\* and isListening is false.
C17_StopEndsAnalysis ==
    quietSince # None =>
        /\ ~Ticked
        /\ frequency = None
        /\ ~isListening

\* ---------------------------------------------------------- specification

Init == AppInit /\ PitchIdle

Next ==
    \/ StartListening
    \/ MicGranted
    \/ MicDenied
    \/ AnimationFrame
    \/ StopListening
    \/ Unmount
    \/ Advance

Spec == Init /\ [][Next]_vars

\* ------------------------------------------------------------ detectPitch
\* Numbers: a sample k stands for k * UnitMilli / 1000; sums of products of
\* samples are exact integers; a normalized correlation value v stands for
\* v / Scale and is the exact quotient rounded towards zero (the code holds
\* IEEE doubles); the refined lag and the returned frequency are exact
\* fractions [num, den] of those values.

Abs(x) == IF x < 0 THEN -x ELSE x

RECURSIVE Concat(_)
Concat(words) ==
    IF words = << >> THEN << >> ELSE Head(words) \o Concat(Tail(words))

\* the sample buffers handed to detectPitch, the empty one among them
Buffers == { Concat(ws) : ws \in [1..NumWords -> Words] } \cup { << >> }

\* pitchDetection.ts:19  buffer.reduce((sum, val) => sum + val * val, 0)
RECURSIVE SumSq(_)
SumSq(samples) ==
    IF samples = << >> THEN 0
    ELSE Head(samples) * Head(samples) + SumSq(Tail(samples))

\* pitchDetection.ts:13  rmsThreshold = isMobile ? 0.004 : 0.01, in 1/1000
RmsThresholdMilli(mobile) == IF mobile THEN 4 ELSE 10
\* pitchDetection.ts:14  clipPercent = isMobile ? 0.3 : 0.5, in 1/10
ClipTenths(mobile) == IF mobile THEN 3 ELSE 5
\* pitchDetection.ts:15  correlationThreshold = isMobile ? 0.6 : 0.7, in 1/10
CorrelationTenths(mobile) == IF mobile THEN 6 ELSE 7
\* pitchDetection.ts:73  globalMax * 0.85, in 1/100
PickPercent == 85

\* RmsBelow comparing the sum of squares, not their mean, with the threshold
RmsBelowSum(samples, mobile) ==
    /\ Len(samples) > 0
    /\ SumSq(samples) * UnitMilli * UnitMilli
           < RmsThresholdMilli(mobile) * RmsThresholdMilli(mobile)

\* pitchDetection.ts:18-21  rms < rmsThreshold, rms = sqrt(sum / length):
\* sum/length < threshold^2.  An empty buffer gives 0/0 = NaN, and
\* NaN < rmsThreshold is false.
RmsBelow(samples, mobile) ==
    /\ Len(samples) > 0
    /\ SumSq(samples) * UnitMilli * UnitMilli
           < RmsThresholdMilli(mobile) * RmsThresholdMilli(mobile) * Len(samples)

\* pitchDetection.ts:25-30  clipped[i] = |v| > rms * clipPercent ? v : 0,
\* that is v^2 * length * 100 > sum * clipTenths^2
CenterClip(samples, mobile) ==
    LET sum == SumSq(samples)
        c == ClipTenths(mobile)
    IN  [i \in 1..Len(samples) |->
            IF samples[i] * samples[i] * Len(samples) * 100 > sum * c * c
            THEN samples[i] ELSE 0]

\* pitchDetection.ts:33  Math.floor(sampleRate / maxFrequency)
MinPeriod(rate, maxFreq) == rate \div maxFreq
\* pitchDetection.ts:34  Math.ceil(sampleRate / minFrequency)
MaxPeriod(rate, minFreq) == -((-rate) \div minFreq)

\* pitchDetection.ts:37-41  the offsets the loop visits
Offsets(length, minPeriod, maxPeriod) ==
    { offset \in minPeriod..(maxPeriod - 1) : 2 * offset < length }

\* pitchDetection.ts:46-50  the three sums over i = 0 .. length-offset-1
\* (index i of the code is i + 1 here)
RECURSIVE Correlation(_, _, _)
Correlation(samples, offset, i) ==
    IF i > Len(samples) - offset THEN 0
    ELSE samples[i] * samples[i + offset] + Correlation(samples, offset, i + 1)

RECURSIVE Energy1(_, _, _)
Energy1(samples, offset, i) ==
    IF i > Len(samples) - offset THEN 0
    ELSE samples[i] * samples[i] + Energy1(samples, offset, i + 1)

RECURSIVE Energy2(_, _, _)
Energy2(samples, offset, i) ==
    IF i > Len(samples) - offset THEN 0
    ELSE samples[i + offset] * samples[i + offset]
             + Energy2(samples, offset, i + 1)

\* pitchDetection.ts:53  correlation / Math.sqrt(energy1 * energy2 + 1e-10)
\* in 1/Scale, rounded towards zero: the largest q with
\* q^2 * (energy1 * energy2 + 1/EpsilonInv) <= Scale^2 * correlation^2
NormalizedCorr(correlation, energy1, energy2) ==
    LET d == EpsilonInv * energy1 * energy2 + 1
        m == EpsilonInv * Scale * Scale * correlation * correlation
        q == CHOOSE x \in 0..Scale :
                 /\ x * x * d <= m
                 /\ (x + 1) * (x + 1) * d > m
    IN  IF correlation < 0 THEN -q ELSE q

\* pitchDetection.ts:46  the values of i (from 0) the inner loop visits
InnerRange(length, offset) == 0..(length - offset - 1)

\* pitchDetection.ts:47-49  the indices read for one offset: i and i + offset
ReadsAt(length, offset) ==
    { i : i \in InnerRange(length, offset) }
        \cup { i + offset : i \in InnerRange(length, offset) }

\* pitchDetection.ts:37-50  the indices read for all offsets
ReadsOf(length, minPeriod, maxPeriod) ==
    UNION { ReadsAt(length, offset) :
                offset \in Offsets(length, minPeriod, maxPeriod) }

\* The value NaN, which is no multiple of 1/Scale.
NaN == -(Scale * Scale)

\* pitchDetection.ts:42-54  normalizedCorr for one offset.  Reading a typed
\* array outside 0 .. length-1 yields undefined, the product with it is NaN
\* and so are the sum and the quotient.
CorrAt(samples, offset) ==
    IF ReadsAt(Len(samples), offset) \subseteq 0..(Len(samples) - 1)
    THEN NormalizedCorr(Correlation(samples, offset, 1),
                        Energy1(samples, offset, 1),
                        Energy2(samples, offset, 1))
    ELSE NaN

\* pitchDetection.ts:35-55  corrValues; corrValues[k] belongs to the offset
\* minPeriod + k - 1
CorrValuesOf(samples, minPeriod, maxPeriod) ==
    [k \in 1..Cardinality(Offsets(Len(samples), minPeriod, maxPeriod)) |->
        CorrAt(samples, minPeriod + k - 1)]

\* pitchDetection.ts:61-62  a > b on numbers: false when either is NaN
GreaterThan(a, b) == a # NaN /\ b # NaN /\ a > b

\* pitchDetection.ts:58-66  the strict local maxima from index i on
\* (index i of the code is i + 1 here)
RECURSIVE PeaksFrom(_, _, _)
PeaksFrom(corr, minPeriod, i) ==
    IF i >= Len(corr) THEN << >>
    ELSE IF GreaterThan(corr[i], corr[i - 1]) /\ GreaterThan(corr[i], corr[i + 1])
         THEN << [offset |-> minPeriod + (i - 1), value |-> corr[i]] >>
                  \o PeaksFrom(corr, minPeriod, i + 1)
         ELSE PeaksFrom(corr, minPeriod, i + 1)

\* FindPeaks storing the index in corrValues as the offset
FindPeaksNoBase(corr, minPeriod) == PeaksFrom(corr, 0, 2)

\* pitchDetection.ts:58-66  for (let i = 1; i < corrValues.length - 1; i++)
FindPeaks(corr, minPeriod) == PeaksFrom(corr, minPeriod, 2)

\* pitchDetection.ts:72  Math.max(...peaks.map((p) => p.value))
GlobalMax(ps) ==
    CHOOSE v \in { ps[i].value : i \in 1..Len(ps) } :
        \A i \in 1..Len(ps) : ps[i].value <= v

\* PickPeak taking the largest peak (the first of them)
PickPeakLargest(ps) ==
    ps[CHOOSE i \in 1..Len(ps) :
           /\ ps[i].value = GlobalMax(ps)
           /\ \A j \in 1..(i - 1) : ps[j].value # GlobalMax(ps)]

\* pitchDetection.ts:72-81  the first peak with value >= globalMax * 0.85,
\* peaks[0] when there is none
PickPeak(ps) ==
    LET globalMax == GlobalMax(ps)
        good == { i \in 1..Len(ps) : 100 * ps[i].value >= PickPercent * globalMax }
    IN  IF good = {} THEN ps[1]
        ELSE ps[CHOOSE i \in good : \A j \in good : i <= j]

\* TooWeak with the heightened profile's threshold for both profiles
TooWeakHeightened(peak, mobile) == 10 * peak.value < 6 * Scale

\* pitchDetection.ts:84  bestPeak.value < correlationThreshold
TooWeak(peak, mobile) == 10 * peak.value < CorrelationTenths(mobile) * Scale

\* pitchDetection.ts:88-106  bestOffset after the parabolic interpolation, as
\* the fraction num/den with den > 0.  denom is in 1/Scale, so
\* Math.abs(denom) > 1e-10 exactly when it is not 0.
Interpolate(peak, corr, minPeriod) ==
    LET offset == peak.offset
        idx == offset - minPeriod
    IN  IF /\ offset > minPeriod
           /\ offset < minPeriod + Len(corr) - 1
           /\ idx > 0
           /\ idx < Len(corr) - 1
        THEN LET y0 == corr[idx]
                 y1 == corr[idx + 1]
                 y2 == corr[idx + 2]
                 denom == y0 - 2 * y1 + y2
             IN  IF denom # 0
                 THEN \* offset + (y0 - y2) / (2 * denom)
                      IF denom > 0
                      THEN [num |-> offset * 2 * denom + (y0 - y2),
                            den |-> 2 * denom]
                      ELSE [num |-> offset * 2 * (-denom) - (y0 - y2),
                            den |-> 2 * (-denom)]
                 ELSE [num |-> offset, den |-> 1]
        ELSE [num |-> offset, den |-> 1]

\* pitchDetection.ts:108  sampleRate / bestOffset, as a fraction
Frequency(rate, lag) == [num |-> rate * lag.den, den |-> lag.num]

minPeriod == MinPeriod(sampleRate, maxFrequency)
maxPeriod == MaxPeriod(sampleRate, minFrequency)

\* a call of detectPitch with its arguments
PitchInit ==
    /\ AppInit
    /\ buffer \in Buffers
    /\ \E p \in PitchParams :
           /\ sampleRate = p[1]
           /\ minFrequency = p[2]
           /\ maxFrequency = p[3]
    /\ isMobile \in BOOLEAN
    /\ pc = "rms"
    /\ clipped = << >>
    /\ corrValues = << >>
    /\ peaks = << >>
    /\ bestPeak = None
    /\ bestOffset = None
    /\ result = None
    /\ reads = {}

inputs == << buffer, sampleRate, minFrequency, maxFrequency, isMobile >>

\* pitchDetection.ts:17-21  1. RMS amplitude check
RmsGate ==
    /\ pc = "rms"
    /\ pc' = IF RmsBelow(buffer, isMobile) THEN "done" ELSE "clip"
    /\ UNCHANGED << inputs, clipped, corrValues, peaks, bestPeak, bestOffset,
                    result, reads >>
    /\ UNCHANGED << appVars, lastTick, obsVars >>

\* pitchDetection.ts:23-30  2. center clipping
Clip ==
    /\ pc = "clip"
    /\ clipped' = CenterClip(buffer, isMobile)
    /\ pc' = "corr"
    /\ UNCHANGED << inputs, corrValues, peaks, bestPeak, bestOffset, result,
                    reads >>
    /\ UNCHANGED << appVars, lastTick, obsVars >>

\* pitchDetection.ts:32-55  3. normalized autocorrelation for all offsets
Correlate ==
    /\ pc = "corr"
    /\ corrValues' = CorrValuesOf(clipped, minPeriod, maxPeriod)
    /\ reads' = ReadsOf(Len(clipped), minPeriod, maxPeriod)
    /\ pc' = "peaks"
    /\ UNCHANGED << inputs, clipped, peaks, bestPeak, bestOffset, result >>
    /\ UNCHANGED << appVars, lastTick, obsVars >>

\* pitchDetection.ts:57-68  4. local maxima; return null if there is none
Peaks ==
    /\ pc = "peaks"
    /\ peaks' = FindPeaks(corrValues, minPeriod)
    /\ pc' = IF peaks' = << >> THEN "done" ELSE "pick"
    /\ UNCHANGED << inputs, clipped, corrValues, bestPeak, bestOffset, result,
                    reads >>
    /\ UNCHANGED << appVars, lastTick, obsVars >>

\* pitchDetection.ts:70-81  5. the first peak within 85% of the largest
Pick ==
    /\ pc = "pick"
    /\ bestPeak' = Some(PickPeak(peaks))
    /\ pc' = "gate"
    /\ UNCHANGED << inputs, clipped, corrValues, peaks, bestOffset, result,
                    reads >>
    /\ UNCHANGED << appVars, lastTick, obsVars >>

\* pitchDetection.ts:83-86  6. return null on a weak correlation
CorrelationGate ==
    /\ pc = "gate"
    /\ pc' = IF TooWeak(bestPeak[1], isMobile) THEN "done" ELSE "refine"
    /\ UNCHANGED << inputs, clipped, corrValues, peaks, bestPeak, bestOffset,
                    result, reads >>
    /\ UNCHANGED << appVars, lastTick, obsVars >>

\* pitchDetection.ts:88-108  7. parabolic interpolation, return the frequency
Refine ==
    /\ pc = "refine"
    /\ bestOffset' = Some(Interpolate(bestPeak[1], corrValues, minPeriod))
    /\ result' = Some(Frequency(sampleRate, bestOffset'[1]))
    /\ pc' = "done"
    /\ UNCHANGED << inputs, clipped, corrValues, peaks, bestPeak, reads >>
    /\ UNCHANGED << appVars, lastTick, obsVars >>

PitchNext ==
    \/ RmsGate
    \/ Clip
    \/ Correlate
    \/ Peaks
    \/ Pick
    \/ CorrelationGate
    \/ Refine

\* ------------------------------------------------- claims on detectPitch

Returned == pc = "done"
ValidInputs ==
    /\ sampleRate > 0
    /\ 0 < minFrequency
    /\ minFrequency < maxFrequency

\* C8: a present frequency f returned for valid inputs has its lag
\* sampleRate/f within [floor(sampleRate/maxFrequency),
\* ceil(sampleRate/minFrequency)], hence within one sample of
\* [sampleRate/maxFrequency, sampleRate/minFrequency], and the lag differs
\* from the integer lag of the selected peak by less than one sample.
C8_RangeInvariant ==
    (Returned /\ result # None /\ ValidInputs) =>
        LET f == result[1]
            \* sampleRate / f = lagNum / lagDen
            lagNum == sampleRate * f.den
            lagDen == f.num
            lo == sampleRate \div maxFrequency
            hi == IF sampleRate % minFrequency = 0
                  THEN sampleRate \div minFrequency
                  ELSE (sampleRate \div minFrequency) + 1
        IN  /\ lagDen > 0
            /\ lo * lagDen <= lagNum
            /\ lagNum <= hi * lagDen
            /\ lagNum * maxFrequency > (sampleRate - maxFrequency) * lagDen
            /\ lagNum * minFrequency < (sampleRate + minFrequency) * lagDen
            /\ Abs(lagNum - bestPeak[1].offset * lagDen) < lagDen

\* a frequency whose lag the interpolation moved below the integer lag of a
\* peak next to the lower end of the lag window, with minPeriod >= 1
C8_Witness ==
    /\ Returned
    /\ result # None
    /\ ValidInputs
    /\ sampleRate \div maxFrequency >= 1
    /\ bestPeak[1].offset = (sampleRate \div maxFrequency) + 1
    /\ sampleRate * result[1].den < bestPeak[1].offset * result[1].num

Picked == bestPeak # None
\* the largest peak value
LargestPeak ==
    CHOOSE v \in { peaks[i].value : i \in 1..Len(peaks) } :
        \A i \in 1..Len(peaks) : peaks[i].value <= v
\* the indices of the peaks whose value is at least 85% of the largest
Band == { i \in 1..Len(peaks) : 100 * peaks[i].value >= 85 * LargestPeak }
SelectedIsFirstInBand ==
    /\ Band # {}
    /\ \E i \in Band :
           /\ bestPeak[1] = peaks[i]
           /\ \A j \in Band : peaks[i].offset <= peaks[j].offset
SelectedNotAfterLargest ==
    /\ \A i \in 1..Len(peaks) :
           peaks[i].value = LargestPeak => bestPeak[1].offset <= peaks[i].offset
    /\ \A i \in Band : peaks[i].offset >= bestPeak[1].offset

\* C9 as stated: whatever the largest peak value, the selected peak is the
\* peak of smallest lag among those with a value of at least 85% of the
\* largest; its lag is not above that of a largest peak and no peak of
\* smaller lag lies in the band.
C9_FirstInBandAlways ==
    Picked => (SelectedIsFirstInBand /\ SelectedNotAfterLargest)

\* C9 as amended: that holds when the largest peak value is >= 0; when it is
\* negative no peak lies in the band, the selected peak is the first peak,
\* and detectPitch returns absent.  In both cases the selected lag is not
\* above that of a largest peak and no peak of smaller lag lies in the band.
C9_FirstInBandOrFirst ==
    Picked =>
        /\ \A i \in 1..(Len(peaks) - 1) : peaks[i].offset < peaks[i + 1].offset
        /\ IF LargestPeak >= 0
           THEN SelectedIsFirstInBand
           ELSE /\ Band = {}
                /\ bestPeak[1] = peaks[1]
                /\ Returned => result = None
        /\ SelectedNotAfterLargest

\* the selected peak is not the largest one
C9_Witness ==
    /\ Picked
    /\ Len(peaks) >= 2
    /\ LargestPeak > 0
    /\ bestPeak[1].value < LargestPeak
    /\ bestPeak[1] = peaks[1]

\* the buffer's RMS is below the profile's threshold: the mean of the squared
\* samples (in units of 0.01) is below 1 (0.01^2), for mobile below 0.16
\* (0.004^2)
QuietBuffer ==
    /\ Len(buffer) > 0
    /\ IF isMobile
       THEN 25 * SumSq(buffer) < 4 * Len(buffer)
       ELSE SumSq(buffer) < Len(buffer)

\* C10: once the amplitude check has run on a buffer with an RMS below the
\* threshold, in particular on an all-zero buffer, detectPitch has returned
\* absent, whatever sampleRate, minFrequency and maxFrequency are, and no
\* later stage has run (nothing was clipped or correlated).
C10_AmplitudeGate ==
    (pc # "rms" /\ (QuietBuffer \/ (Len(buffer) > 0 /\ SumSq(buffer) = 0))) =>
        /\ Returned
        /\ result = None
        /\ clipped = << >>
        /\ corrValues = << >>
        /\ peaks = << >>
        /\ bestPeak = None

\* a buffer that is not silent, quiet for the standard profile and loud
\* enough for the mobile one, rejected under the standard profile
C10_Witness ==
    /\ Returned
    /\ ~isMobile
    /\ SumSq(buffer) > 0
    /\ SumSq(buffer) < Len(buffer)
    /\ 25 * SumSq(buffer) >= 4 * Len(buffer)
    /\ result = None

\* the inputs section 7 of the specification calls malformed
Malformed ==
    \/ Len(buffer) = 0
    \/ sampleRate <= 0
    \/ minFrequency >= maxFrequency
\* the call is over: it returned, or it raised an error (detectPitch has no
\* throw statement and calls nothing that throws, so no step sets "thrown")
Ended == pc \in {"done", "thrown"}

\* C11: a call with a zero-length buffer, a non-positive sample rate or
\* minFrequency >= maxFrequency ends in an error, never in a returned value
\* (in particular never in an ordinary absent result).
C11_MalformedFailsFast ==
    (Malformed /\ Ended) => pc = "thrown"

\* the lags a correlation value was computed for
LagsExamined == { minPeriod + k - 1 : k \in 1..Len(corrValues) }

\* C12: whatever the buffer length N and the parameters, every lag with a
\* correlation value satisfies minPeriod <= lag < maxPeriod and lag < N/2,
\* and every index at which the correlation sums read clipped lies in
\* 0 .. N-1.
C12_LagWindowInBounds ==
    /\ \A lag \in LagsExamined :
           /\ minPeriod <= lag
           /\ lag < maxPeriod
           /\ 2 * lag < Len(buffer)
    /\ \A i \in reads : 0 <= i /\ i <= Len(buffer) - 1

\* C13: when minPeriod = floor(sampleRate/maxFrequency) is 0 or negative the
\* call raises no error, the selected lag and the refined lag are positive
\* (never 0 or below, so sampleRate is never divided by a zero lag), and the
\* call returns absent or a finite positive frequency.
C13_DegenerateMinPeriod ==
    (minPeriod <= 0) =>
        /\ pc # "thrown"
        /\ bestPeak # None => bestPeak[1].offset > 0
        /\ bestOffset # None =>
               (bestOffset[1].den > 0 /\ bestOffset[1].num > 0)
        /\ (Returned /\ result # None) =>
               (result[1].den > 0 /\ result[1].num > 0)

\* the selected peak's value is at least the profile's correlation threshold:
\* value/Scale >= 0.7 (standard), >= 0.6 (heightened)
SelectedStrong ==
    IF isMobile
    THEN 10 * bestPeak[1].value >= 6 * Scale
    ELSE 10 * bestPeak[1].value >= 7 * Scale

\* C14: a present frequency is returned only if a peak was selected, it is
\* the first peak inside the 85% band and its value is at least 0.7
\* (standard) or 0.6 (heightened); when the selected peak's value is below
\* that threshold the call returns absent without refining, whatever the
\* values of the other peaks.
C14_CorrelationGate ==
    /\ (Returned /\ result # None) =>
           (Picked /\ SelectedIsFirstInBand /\ SelectedStrong)
    /\ (Returned /\ Picked /\ ~SelectedStrong) =>
           (result = None /\ bestOffset = None)

\* absent although a peak of larger lag reaches the threshold the selected
\* peak misses
C14_Witness ==
    /\ Returned
    /\ ValidInputs
    /\ Picked
    /\ ~SelectedStrong
    /\ result = None
    /\ \E i \in 1..Len(peaks) :
           /\ peaks[i].offset > bestPeak[1].offset
           /\ 10 * peaks[i].value >= (IF isMobile THEN 6 ELSE 7) * Scale

SpecPitch == PitchInit /\ [][PitchNext]_vars

====
